---- MODULE Spec2Model ----
(***************************************************************************)
(* A model of btcdeb's tiny expression language (src/tinyparser.h: the     *)
(* tokenizer, the backtracking recursive-descent parser and the AST        *)
(* evaluation against a callback table) and of the script interpreter's    *)
(* ConditionStack (src/debugger/see.h).                                    *)
(*                                                                         *)
(* The module holds four state machines over disjoint variables; each      *)
(* specification runs one of them and leaves the others idle:              *)
(*   SpecCond   ConditionStack beside an explicit vector of booleans       *)
(*   SpecLex    tokenize, one loop iteration per step                      *)
(*   Spec       treeify on a token sequence, then eval of the AST          *)
(*   SpecConc   two treeify invocations interleaved over the global x      *)
(***************************************************************************)
EXTENDS Integers, Sequences, FiniteSets, TLC

VARIABLES
    m_stack_size,       \* ConditionStack::m_stack_size
    m_first_false_pos,  \* ConditionStack::m_first_false_pos
    vec,                \* the explicit vector<bool> run in lockstep
    lex,                \* tokenize: the text read so far and the scanner's locals
    tokens,             \* treeify's argument: the token sequence
    pc,                 \* where the run on tokens stands
    root,               \* the st_t* treeify returned
    cursor,             \* treeify's s after the top-level parse_expr
    calls,              \* the calls eval has made on the callback table, in order
    result,             \* the ref eval returned
    ub,                 \* the run has executed undefined behaviour
    x,                  \* the global st_t* x that the try macro assigns
    thread              \* the threads calling treeify at once: stack, locals, outcome

csvars == <<m_stack_size, m_first_false_pos, vec>>

lexvars == <<lex>>

runvars == <<tokens, pc, root, cursor, calls, result, ub>>

concvars == <<x, thread>>

(***************************************************************************)
(* ConditionStack (src/debugger/see.h)                                     *)
(***************************************************************************)

\* Longest condition stack the model builds.
MaxDepth == 6

\* std::numeric_limits<uint32_t>::max(), 0xFFFFFFFF. TLC's integers are 32-bit
\* signed, so the all-ones word is written as the signed value of the same
\* bits; every other uint32_t the model reaches is below MaxDepth + 1, far
\* from the wrap at 2^32, and stands for itself.
NO_FALSE == -1

size == m_stack_size

empty == m_stack_size = 0

all_true == m_first_false_pos = NO_FALSE

\* push_back with the NO_FALSE test dropped: the first false position is
\* moved by every false that is pushed.
push_back_always_moves(f) ==
    /\ m_stack_size < MaxDepth
    /\ m_first_false_pos' = IF ~f THEN m_stack_size ELSE m_first_false_pos
    /\ m_stack_size' = m_stack_size + 1
    /\ vec' = Append(vec, f)
    /\ UNCHANGED <<lexvars, runvars, concvars>>

push_back(f) ==
    /\ m_stack_size < MaxDepth
    /\ m_first_false_pos' = IF m_first_false_pos = NO_FALSE /\ ~f
                            THEN m_stack_size
                            ELSE m_first_false_pos
    /\ m_stack_size' = m_stack_size + 1
    /\ vec' = Append(vec, f)
    /\ UNCHANGED <<lexvars, runvars, concvars>>

pop_back ==
    /\ m_stack_size > 0
    /\ m_stack_size' = m_stack_size - 1
    /\ m_first_false_pos' = IF m_first_false_pos = m_stack_size'
                            THEN NO_FALSE
                            ELSE m_first_false_pos
    /\ vec' = SubSeq(vec, 1, Len(vec) - 1)
    /\ UNCHANGED <<lexvars, runvars, concvars>>

toggle_top ==
    /\ m_stack_size > 0
    /\ m_first_false_pos' =
          IF m_first_false_pos = NO_FALSE
          THEN m_stack_size - 1
          ELSE IF m_first_false_pos = m_stack_size - 1
               THEN NO_FALSE
               ELSE m_first_false_pos
    /\ m_stack_size' = m_stack_size
    /\ vec' = [vec EXCEPT ![Len(vec)] = ~vec[Len(vec)]]
    /\ UNCHANGED <<lexvars, runvars, concvars>>

(***************************************************************************)
(* Tokens and characters (src/tinyparser.h)                                *)
(*                                                                         *)
(* A character is a one-character string, a text a sequence of characters. *)
(* A token_t is a record: its kind, its value (a sequence of characters)   *)
(* and null, which says that value is still the nullptr it starts as.      *)
(* The chain head -> ... -> tail is a sequence of such records.            *)
(***************************************************************************)

token_type ==
    {"tok_undef", "tok_symbol", "tok_number", "tok_equal", "tok_lparen",
     "tok_rparen", "tok_string", "tok_mul", "tok_plus", "tok_minus", "tok_div",
     "tok_concat", "tok_comma", "tok_hex", "tok_bin", "tok_consumable", "tok_ws"}

\* The character before the first one (i ? s[i-1] : 0) and "not finding".
NUL == "NUL"

Digit == {"0", "1", "2", "3", "4", "5", "6", "7", "8", "9"}

LowerAF == {"a", "b", "c", "d", "e", "f"}

UpperAF == {"A", "B", "C", "D", "E", "F"}

Lower == LowerAF \cup {"g", "h", "i", "j", "k", "l", "m", "n", "o", "p", "q",
                       "r", "s", "t", "u", "v", "w", "x", "y", "z"}

Upper == UpperAF \cup {"G", "H", "I", "J", "K", "L", "M", "N", "O", "P", "Q",
                       "R", "S", "T", "U", "V", "W", "X", "Y", "Z"}

\* token_t(token_in, prev): value starts as nullptr.
token_t(token_in) == [token |-> token_in, value |-> <<>>, null |-> TRUE]

\* A token whose value has been set (strndup).
WithValue(t, v) == [t EXCEPT !.value = v, !.null = FALSE]

determine_token(c, p, restrict_type, current) ==
    IF c = "|" THEN (IF p = "|" THEN "tok_concat" ELSE "tok_consumable")
    ELSE IF c = "+" THEN "tok_plus"
    ELSE IF c = "-" THEN "tok_minus"
    ELSE IF c = "*" THEN "tok_mul"
    ELSE IF c = "/" THEN "tok_div"
    ELSE IF c = "," THEN "tok_comma"
    ELSE IF c = "=" THEN "tok_equal"
    ELSE IF c = ")" THEN "tok_rparen"
    ELSE IF c \in {" ", "\t", "\n"} THEN "tok_ws"
    ELSE IF restrict_type # "tok_undef"
         THEN IF restrict_type = "tok_hex" /\ c \in Digit \cup LowerAF \cup UpperAF
              THEN "tok_number"
              ELSE IF restrict_type = "tok_bin" /\ c \in {"0", "1"}
                   THEN "tok_number"
                   ELSE "tok_undef"
    ELSE IF c = "x" /\ p = "0" /\ current = "tok_number" THEN "tok_hex"
    ELSE IF c = "b" /\ p = "0" /\ current = "tok_number" THEN "tok_bin"
    ELSE IF c \in Digit
         THEN (IF current = "tok_symbol" THEN "tok_symbol" ELSE "tok_number")
    ELSE IF current = "tok_number" /\ c \in LowerAF \cup UpperAF THEN "tok_number"
    ELSE IF c \in Lower \cup Upper \cup {"_"} THEN "tok_symbol"
    ELSE IF c = "\"" THEN "tok_string"
    ELSE IF c = "(" THEN "tok_lparen"
    ELSE "tok_undef"

(***************************************************************************)
(* tokenize (src/tinyparser.h:103-198)                                     *)
(*                                                                         *)
(* lex.s is the text read so far, so the loop's i is Len(lex.s); lex.toks  *)
(* is the chain from head to tail (tail is its last element, nullptr when  *)
(* it is empty) and lex.prev the position of *prev in it (0: nullptr).     *)
(* lex.status is "scanning" inside the loop and afterwards how the call    *)
(* ended: "returned", "LexError" (the runtime_error), or, once the code    *)
(* has run into undefined behaviour (lex.ub), any of UBOutcomes.           *)
(***************************************************************************)

\* What a run that dereferenced nullptr or freed a token twice can end as.
UBOutcomes == {"crashed", "returned", "LexError"}

RunKinds == {"tok_string", "tok_symbol", "tok_number", "tok_consumable"}

StructuralKinds ==
    {"tok_equal", "tok_lparen", "tok_rparen", "tok_mul", "tok_plus", "tok_minus",
     "tok_concat", "tok_comma", "tok_div", "tok_hex", "tok_bin"}

LexStart ==
    [s |-> <<>>, toks |-> <<>>, prev |-> 0, open |-> FALSE, finalized |-> TRUE,
     finding |-> NUL, restrict_type |-> "tok_undef", token_start |-> 0,
     status |-> "scanning", ub |-> FALSE]

tail(st) == st.toks[Len(st.toks)]

SetTail(st, t) == [st EXCEPT !.toks[Len(st.toks)] = t]

\* delete tail; if (head == tail) head = prev; tail = prev;
\* Deleting a tail that *prev does not precede frees the token prev->next
\* still points to a second time: undefined behaviour.
DeleteTail(st) ==
    IF st.prev < Len(st.toks)
    THEN [st EXCEPT !.toks = SubSeq(st.toks, 1, st.prev)]
    ELSE [st EXCEPT !.status = "UB"]

\* tail->value = strndup(&s[token_start], i-token_start); finalized = true;
Finalize(st) ==
    IF st.toks = <<>>
    THEN [st EXCEPT !.status = "UB"]
    ELSE [SetTail(st, WithValue(tail(st), SubSeq(st.s, st.token_start + 1, Len(st.s))))
            EXCEPT !.finalized = TRUE]

\* Lines 138-149: what closing the previous run does.
CloseRun(st, token) ==
    IF st.toks # <<>> /\ tail(st).token = "tok_consumable"
    THEN IF token \in {"tok_hex", "tok_bin"}
         THEN DeleteTail([st EXCEPT !.restrict_type = token])
         ELSE st
    ELSE IF ~st.finalized THEN Finalize(st) ELSE st

\* The switch with the structural cases leaving a consumable tail in place.
Switch_keeps_consumable(st, token, c) ==
    IF st.status # "scanning" THEN st
    ELSE IF token \in RunKinds
    THEN [st EXCEPT !.finding = IF token = "tok_string" THEN "\"" ELSE st.finding,
                    !.prev = Len(st.toks),
                    !.finalized = FALSE,
                    !.token_start = Len(st.s),
                    !.toks = Append(st.toks, token_t(token)),
                    !.open = TRUE]
    ELSE IF token \in StructuralKinds
    THEN IF st.toks = <<>>
         THEN [st EXCEPT !.status = "UB"]
         ELSE [st EXCEPT !.toks = Append(st.toks, WithValue(token_t(token), <<c>>))]
    ELSE IF token = "tok_ws" THEN st
    ELSE [st EXCEPT !.status = "LexError"]

\* Lines 150-189: the switch on the kind of the character, c being s[i].
Switch(st, token, c) ==
    IF st.status # "scanning" THEN st
    ELSE IF token \in RunKinds
    THEN [st EXCEPT !.finding = IF token = "tok_string" THEN "\"" ELSE st.finding,
                    !.prev = Len(st.toks),
                    !.finalized = FALSE,
                    !.token_start = Len(st.s),
                    !.toks = Append(st.toks, token_t(token)),
                    !.open = TRUE]
    ELSE IF token \in StructuralKinds
    THEN IF st.toks = <<>>
         THEN [st EXCEPT !.status = "UB"]
         ELSE LET d == IF tail(st).token = "tok_consumable" THEN DeleteTail(st) ELSE st
              IN  IF d.status # "scanning" THEN d
                  ELSE [d EXCEPT !.toks = Append(d.toks, WithValue(token_t(token), <<c>>))]
    ELSE IF token = "tok_ws" THEN st
    ELSE [st EXCEPT !.status = "LexError"]

\* Lines 121-190: one character that is not inside a string.
Classify(st, c) ==
    LET i == Len(st.s)
        token == determine_token(c, IF i = 0 THEN NUL ELSE st.s[i], st.restrict_type,
                                 IF st.toks = <<>> THEN "tok_undef" ELSE tail(st).token)
    IN  IF token = "tok_consumable" /\ st.toks = <<>>
        THEN [st EXCEPT !.status = "UB"]
        ELSE IF token = "tok_consumable" /\ tail(st).token = "tok_consumable"
        THEN [st EXCEPT !.status = "LexError"]
        ELSE
        LET \* token hex or bin means current was tok_number, so tail exists
            s1 == IF token \in {"tok_hex", "tok_bin"} /\ tail(st).token = "tok_number"
                  THEN SetTail(st, [tail(st) EXCEPT !.token = "tok_consumable"])
                  ELSE st
            s2 == IF token = "tok_ws"
                  THEN [s1 EXCEPT !.open = FALSE, !.restrict_type = "tok_undef"]
                  ELSE s1
            s3 == IF s2.open
                  THEN [s2 EXCEPT !.open = (token = tail(s2).token)]
                  ELSE s2
        IN  IF s3.open THEN s3 ELSE Switch(CloseRun(s3, token), token, c)

\* One iteration of the for loop on the character c = s[i], then ++i.
LoopBody(st, c) ==
    LET n == IF st.finding # NUL
             THEN IF c # st.finding
                  THEN st
                  ELSE [st EXCEPT !.finding = NUL, !.open = FALSE]
             ELSE Classify(st, c)
    IN  [n EXCEPT !.s = Append(st.s, c)]

\* Lines 193-197: s[i] is 0.
AfterLoop(st) ==
    LET n == IF ~st.finalized THEN Finalize(st) ELSE st
    IN  IF n.status = "scanning" THEN [n EXCEPT !.status = "returned"] ELSE n

(***************************************************************************)
(* The AST (src/tinyparser.h:212-328)                                      *)
(*                                                                         *)
(* A node is a record tagged by k with the struct's members; nullptr is    *)
(* NoNode. Strings are sequences of characters.                            *)
(***************************************************************************)

NoNode == [k |-> "nullptr"]

var_t(varname_in) == [k |-> "var_t", varname |-> varname_in]

\* value.substr(1, value.length() - 2): the length wraps to npos below 2, and
\* the substring then runs to the end. A string token's value starts with its
\* opening quote, so it is never empty.
StripQuotes(value) ==
    IF Len(value) >= 2 THEN SubSeq(value, 2, Len(value) - 1)
    ELSE SubSeq(value, 2, Len(value))

value_t(type_in, value_in, restriction_in) ==
    [k |-> "value_t", type |-> type_in, restriction |-> restriction_in,
     value |-> IF type_in = "tok_string" THEN StripQuotes(value_in) ELSE value_in]

set_t(varname_in, value_in) ==
    [k |-> "set_t", varname |-> varname_in, value |-> value_in]

list_t(values_in) == [k |-> "list_t", values |-> values_in]

call_t(fname_in, args_in) == [k |-> "call_t", fname |-> fname_in, args |-> args_in]

bin_t(op_token_in, lhs_in, rhs_in) ==
    [k |-> "bin_t", op_token |-> op_token_in, lhs |-> lhs_in, rhs |-> rhs_in]

(***************************************************************************)
(* The grammar rules (src/tinyparser.h:333-482)                            *)
(*                                                                         *)
(* A cursor token_t* is a position in the token sequence toks; the         *)
(* position after the last token is nullptr. A rule called on token_t** s  *)
(* is an operator of toks and of the cursor *s; it yields the node it      *)
(* returns and the value it leaves in *s.                                  *)
(***************************************************************************)

IsNull(toks, r) == r > Len(toks)

\* What a rule hands back: the st_t* and the cursor left in *s.
Ret(node_in, s_in) == [node |-> node_in, s |-> s_in]

Failed(res) == res.node = NoNode

parse_variable(toks, s) ==
    IF toks[s].token = "tok_symbol"
    THEN Ret(var_t(toks[s].value), s + 1)
    ELSE Ret(NoNode, s)

parse_value(toks, s, restriction) ==
    IF toks[s].token \in {"tok_symbol", "tok_number", "tok_string"}
    THEN Ret(value_t(toks[s].token, toks[s].value, restriction), s + 1)
    ELSE Ret(NoNode, s)

parse_restricted(toks, s) ==
    IF toks[s].token \in {"tok_hex", "tok_bin"}
    THEN LET r == s + 1
             t == IF ~IsNull(toks, r)
                  THEN parse_value(toks, r, toks[s].token)
                  ELSE Ret(NoNode, r)
         IN  IF Failed(t)
             THEN IF toks[s].token = "tok_hex"
                  THEN Ret(value_t("tok_number", <<>>, toks[s].token), t.s)
                  ELSE Ret(NoNode, s)
             ELSE Ret(t.node, t.s)
    ELSE Ret(NoNode, s)

BinaryOps == {"tok_plus", "tok_minus", "tok_mul", "tok_div", "tok_concat"}

RECURSIVE parse_expr(_, _, _, _)
RECURSIVE parse_set(_, _)
RECURSIVE parse_parenthesized(_, _)
RECURSIVE parse_tok_binary_expr_post_lhs(_, _, _)
RECURSIVE parse_tok_binary_expr(_, _)
RECURSIVE csv_loop(_, _, _)
RECURSIVE parse_csv(_, _)
RECURSIVE parse_fcall(_, _)

parse_set(toks, s) ==
    LET var == parse_variable(toks, s)
        r == var.s
    IN  IF Failed(var) THEN Ret(NoNode, s)
        ELSE IF IsNull(toks, r) \/ IsNull(toks, r + 1) \/ toks[r].token # "tok_equal"
        THEN Ret(NoNode, s)
        ELSE LET val == parse_expr(toks, r + 1, TRUE, FALSE)
             IN  IF Failed(val) THEN Ret(NoNode, s)
                 ELSE Ret(set_t(var.node.varname, val.node), val.s)

\* parse_parenthesized working on *s itself: the step past the "(" stays
\* in *s when the rule fails behind it.
parse_parenthesized_moves_early(toks, s) ==
    IF toks[s].token # "tok_lparen" \/ IsNull(toks, s + 1)
    THEN Ret(NoNode, s)
    ELSE LET v == parse_expr(toks, s + 1, TRUE, FALSE)
         IN  IF Failed(v) THEN Ret(NoNode, s + 1)
             ELSE IF IsNull(toks, v.s) \/ toks[v.s].token # "tok_rparen"
             THEN Ret(NoNode, s + 1)
             ELSE Ret(v.node, v.s + 1)

parse_parenthesized(toks, s) ==
    IF toks[s].token # "tok_lparen" \/ IsNull(toks, s + 1)
    THEN Ret(NoNode, s)
    ELSE LET v == parse_expr(toks, s + 1, TRUE, FALSE)
         IN  IF Failed(v) THEN Ret(NoNode, s)
             ELSE IF IsNull(toks, v.s) \/ toks[v.s].token # "tok_rparen"
             THEN Ret(NoNode, s)
             ELSE Ret(v.node, v.s + 1)

\* #define try(parser) x = parser(s); if (x) return x
\* Each alternative runs on the cursor the one before it left in *s.
parse_expr(toks, s, allow_tok_binary, allow_set) ==
    LET t1 == IF allow_tok_binary THEN parse_tok_binary_expr(toks, s) ELSE Ret(NoNode, s)
    IN  IF ~Failed(t1) THEN t1 ELSE
    LET t2 == IF allow_set THEN parse_set(toks, t1.s) ELSE Ret(NoNode, t1.s)
    IN  IF ~Failed(t2) THEN t2 ELSE
    LET t3 == parse_fcall(toks, t2.s)
    IN  IF ~Failed(t3) THEN t3 ELSE
    LET t4 == parse_parenthesized(toks, t3.s)
    IN  IF ~Failed(t4) THEN t4 ELSE
    LET t5 == parse_variable(toks, t4.s)
    IN  IF ~Failed(t5) THEN t5 ELSE
    LET t6 == parse_restricted(toks, t5.s)
    IN  IF ~Failed(t6) THEN t6 ELSE
    parse_value(toks, t6.s, "tok_undef")

\* parse_tok_binary_expr_post_lhs grouping to the left: the right operand is
\* one operand, and the node built is the left operand of the operator after it.
RECURSIVE post_lhs_groups_left(_, _, _)
post_lhs_groups_left(toks, s, lhs) ==
    IF toks[s].token \notin BinaryOps THEN Ret(NoNode, s)
    ELSE LET op_token == toks[s].token
             r == s + 1
         IN  IF IsNull(toks, r) THEN Ret(NoNode, s)
             ELSE LET rhs == parse_expr(toks, r, FALSE, FALSE)
                      node == bin_t(op_token, lhs, rhs.node)
                  IN  IF Failed(rhs) THEN Ret(NoNode, s)
                      ELSE IF IsNull(toks, rhs.s) THEN Ret(node, rhs.s)
                      ELSE LET more == post_lhs_groups_left(toks, rhs.s, node)
                           IN  IF Failed(more) THEN Ret(node, rhs.s) ELSE more

parse_tok_binary_expr_post_lhs(toks, s, lhs) ==
    IF toks[s].token \notin BinaryOps THEN Ret(NoNode, s)
    ELSE LET op_token == toks[s].token
             r == s + 1
         IN  IF IsNull(toks, r) THEN Ret(NoNode, s)
             ELSE LET rhs == parse_expr(toks, r, TRUE, FALSE)
                  IN  IF Failed(rhs) THEN Ret(NoNode, s)
                      ELSE Ret(bin_t(op_token, lhs, rhs.node), rhs.s)

parse_tok_binary_expr(toks, s) ==
    LET lhs == parse_expr(toks, s, FALSE, FALSE)
    IN  IF Failed(lhs) THEN Ret(NoNode, s)
        ELSE IF IsNull(toks, lhs.s) THEN Ret(NoNode, s)
        ELSE LET res == parse_tok_binary_expr_post_lhs(toks, lhs.s, lhs.node)
             IN  IF Failed(res) THEN Ret(NoNode, s)
                 ELSE Ret(res.node, res.s)

\* The while (r) loop of parse_csv: the values so far and the cursor r; it
\* yields the values and r as the loop leaves them.
csv_loop(toks, r, values) ==
    IF IsNull(toks, r) THEN [values |-> values, r |-> r]
    ELSE LET next == parse_expr(toks, r, TRUE, FALSE)
         IN  IF Failed(next) THEN [values |-> values, r |-> next.s]
             ELSE IF IsNull(toks, next.s) \/ toks[next.s].token # "tok_comma"
             THEN [values |-> Append(values, next.node), r |-> next.s]
             ELSE csv_loop(toks, next.s + 1, Append(values, next.node))

parse_csv(toks, s) ==
    LET l == csv_loop(toks, s, <<>>)
    IN  IF Len(l.values) = 0 THEN Ret(NoNode, s)
        ELSE Ret(list_t(l.values), l.r)

parse_fcall(toks, s) ==
    IF toks[s].token # "tok_symbol" THEN Ret(NoNode, s)
    ELSE LET fname == toks[s].value
             r == s + 1
         IN  IF IsNull(toks, r) \/ IsNull(toks, r + 1) \/ toks[r].token # "tok_lparen"
             THEN Ret(NoNode, s)
             ELSE LET args == parse_csv(toks, r + 1)
                  IN  IF IsNull(toks, args.s) THEN Ret(NoNode, s)
                      ELSE IF toks[args.s].token # "tok_rparen" THEN Ret(NoNode, s)
                      ELSE Ret(call_t(fname, args.node), args.s + 1)

\* treeify without its if (s) throw: whatever parse_expr built is returned.
treeify_keeps_leftover(toks) ==
    IF toks = <<>> THEN [status |-> "UB", value |-> NoNode, s |-> 1]
    ELSE LET res == parse_expr(toks, 1, TRUE, TRUE)
         IN  [status |-> "returned", value |-> res.node, s |-> res.s]

\* treeify: how the call ends (status), the st_t* it returns (value) and the
\* cursor s after the top-level parse_expr. With no token at all the first
\* rule reads tokens->token through nullptr: undefined behaviour.
treeify(toks) ==
    IF toks = <<>> THEN [status |-> "UB", value |-> NoNode, s |-> 1]
    ELSE LET res == parse_expr(toks, 1, TRUE, TRUE)
         IN  IF ~IsNull(toks, res.s)
             THEN [status |-> "SyntaxError", value |-> NoNode, s |-> res.s]
             ELSE [status |-> "returned", value |-> res.node, s |-> res.s]

(***************************************************************************)
(* Evaluation (st_callback_table and the eval methods)                     *)
(*                                                                         *)
(* The callback table is the host's: the model records each call made on   *)
(* it, in order, and lets every call return a ref that names the call      *)
(* (the call's own record), so that the refs passed on show where they     *)
(* came from.                                                              *)
(***************************************************************************)

nullref == [call |-> "nullref"]

load(variable) == [call |-> "load", variable |-> variable]

save(variable, ref) == [call |-> "save", variable |-> variable, saved |-> ref]

bin(op, lhs, rhs) == [call |-> "bin", op |-> op, lhs |-> lhs, rhs |-> rhs]

fcall(fname, argc, argv) == [call |-> "fcall", fname |-> fname, argc |-> argc, argv |-> argv]

convert(value, type, restriction) ==
    [call |-> "convert", value |-> value, type |-> type, restriction |-> restriction]

\* The order in which a build evaluates the two eval() arguments of
\* ct->bin(op_token, lhs->eval(ct), rhs->eval(ct)): C++ leaves it unspecified.
ArgOrders == {"lhs_first", "rhs_first"}

\* What an evaluation did: the calls made on the table in order, the ref it
\* returned, and ub once it has called a method through a null pointer.
Done(made, ref) == [calls |-> made, ref |-> ref, ub |-> FALSE]

RECURSIVE eval(_, _)
RECURSIVE list_eval_loop(_, _, _, _)

\* list_t::list_eval: for (i = 0; i < values.size(); ++i) listref[i] = values[i]->eval(ct)
\* from index i on, listref and the calls so far given.
list_eval_loop(values, i, acc, order) ==
    IF i > Len(values) THEN acc
    ELSE LET e == eval(values[i], order)
             n == [calls |-> acc.calls \o e.calls, ref |-> Append(acc.ref, e.ref),
                   ub |-> e.ub]
         IN  IF e.ub THEN n ELSE list_eval_loop(values, i + 1, n, order)

\* list_eval with the loop run from the last element down: the arguments
\* evaluated right to left.
RECURSIVE list_eval_backwards_loop(_, _, _, _)
list_eval_backwards_loop(values, i, acc, order) ==
    IF i < 1 THEN acc
    ELSE LET e == eval(values[i], order)
             n == [calls |-> acc.calls \o e.calls, ref |-> <<e.ref>> \o acc.ref,
                   ub |-> e.ub]
         IN  IF e.ub THEN n ELSE list_eval_backwards_loop(values, i - 1, n, order)

list_eval_backwards(list, order) ==
    list_eval_backwards_loop(list.values, Len(list.values), Done(<<>>, <<>>), order)

list_eval(list, order) == list_eval_loop(list.values, 1, Done(<<>>, <<>>), order)

\* call_t::eval. args is nullptr for a call parsed with no argument, and
\* args->list_eval(ct) then runs on a null this: undefined behaviour.
call_t_eval(node, order) ==
    IF node.args = NoNode
    THEN [calls |-> <<>>, ref |-> nullref, ub |-> TRUE]
    ELSE LET list == list_eval(node.args, order)
             c == fcall(node.fname, Len(node.args.values), list.ref)
         IN  IF list.ub THEN [list EXCEPT !.ref = nullref]
             ELSE Done(Append(list.calls, c), c)

\* bin_t::eval
bin_t_eval(node, order) ==
    LET first == IF order = "lhs_first" THEN node.lhs ELSE node.rhs
        second == IF order = "lhs_first" THEN node.rhs ELSE node.lhs
        a == eval(first, order)
    IN  IF a.ub THEN a
        ELSE LET b == eval(second, order)
                 l == IF order = "lhs_first" THEN a.ref ELSE b.ref
                 r == IF order = "lhs_first" THEN b.ref ELSE a.ref
                 c == bin(node.op_token, l, r)
             IN  IF b.ub THEN [b EXCEPT !.calls = a.calls \o b.calls]
                 ELSE Done(a.calls \o b.calls \o <<c>>, c)

\* set_t::eval calling save before it evaluates the value, and returning the
\* value's ref.
set_t_eval_saves_first(node, order) ==
    LET v == eval(node.value, order)
    IN  IF v.ub THEN v
        ELSE Done(<<save(node.varname, v.ref)>> \o v.calls, v.ref)

\* set_t::eval
set_t_eval(node, order) ==
    LET v == eval(node.value, order)
    IN  IF v.ub THEN v
        ELSE Done(Append(v.calls, save(node.varname, v.ref)), nullref)

\* The virtual eval of each node kind.
eval(node, order) ==
    CASE node.k = "var_t" -> Done(<<load(node.varname)>>, load(node.varname))
      [] node.k = "value_t" ->
            LET c == convert(node.value, node.type, node.restriction)
            IN  Done(<<c>>, c)
      [] node.k = "set_t" -> set_t_eval(node, order)
      [] node.k = "call_t" -> call_t_eval(node, order)
      [] node.k = "bin_t" -> bin_t_eval(node, order)

\* Longest text scanned in full over Alphabet.
MaxLen == 4

Alphabet == {"a", "b", "x", "0", "1", "F", "|", "+", "(", " "}

\* Longer texts, read beside every text of at most MaxLen characters.
Examples ==
    { <<"a", " ", "=", " ", "1", " ", "+", " ", "2">>,
      <<"a", " ", "|", " ", "b">>,
      <<"a", "|", "+", "b", "|", "|", "b">>,
      <<"a", " ", "=", " ", "0", "b">>,
      <<"a", "=", "1", "0", "x", "1", "F">>,
      <<"a", "=", "1", "0", "0", "b", "1">>,
      <<"a", "=", "0", "x", "1", "F", "+", "f", "o", "o">>,
      <<"a", "=", "\"", "x", " ", "\"", ")">>,
      <<"f", "(", "a", ",", " ", "b", ")">>,
      <<"a", "-", "b", "*", "c", "/", "d", "#">> }

IsPrefix(u, v) == Len(u) <= Len(v) /\ SubSeq(v, 1, Len(u)) = u

\* The texts the model reads: s[i] may be c after the characters of lex.s.
MayRead(c) ==
    \/ Len(lex.s) < MaxLen /\ c \in Alphabet
    \/ \E e \in Examples : IsPrefix(Append(lex.s, c), e)

Chars == Alphabet \cup UNION {{e[k] : k \in 1..Len(e)} : e \in Examples}

\* How a step of tokenize ends: as computed, or, after undefined behaviour,
\* in any way at all.
LexOutcome(n) ==
    IF n.status = "UB"
    THEN \E o \in UBOutcomes : lex' = [n EXCEPT !.status = o, !.ub = TRUE]
    ELSE lex' = n

\* for (i = 0; s[i]; ++i) { ... } with s[i] = c
Scan(c) ==
    /\ lex.status = "scanning"
    /\ MayRead(c)
    /\ LexOutcome(LoopBody(lex, c))
    /\ UNCHANGED <<csvars, runvars, concvars>>

\* s[i] = 0: the loop ends and tokenize returns head
EndOfText ==
    /\ lex.status = "scanning"
    /\ LexOutcome(AfterLoop(lex))
    /\ UNCHANGED <<csvars, runvars, concvars>>

(***************************************************************************)
(* treeify on a token sequence, then eval of the tree it returned          *)
(***************************************************************************)

\* Longest token sequence parsed in full over TokenAlphabet.
MaxTokens == 3

\* Most operands in the operator chains parsed beside them.
MaxChain == 3

Tok(kind, text) == [token |-> kind, value |-> text, null |-> FALSE]

TokenAlphabet ==
    { Tok("tok_symbol", <<"a">>), Tok("tok_symbol", <<"f">>),
      Tok("tok_number", <<"1">>), Tok("tok_string", <<"\"", "s", "\"">>),
      Tok("tok_lparen", <<"(">>), Tok("tok_rparen", <<")">>),
      Tok("tok_minus", <<"-">>), Tok("tok_comma", <<",">>),
      Tok("tok_equal", <<"=">>), Tok("tok_hex", <<"0", "x">>),
      Tok("tok_bin", <<"0", "b">>) }

RECURSIVE SeqsUpTo(_, _)
SeqsUpTo(S, n) ==
    IF n = 0 THEN {<<>>}
    ELSE LET shorter == SeqsUpTo(S, n - 1)
         IN  shorter \cup {Append(q, e) : q \in {u \in shorter : Len(u) = n - 1}, e \in S}

Sym(name) == Tok("tok_symbol", <<name>>)

Num(digits) == Tok("tok_number", digits)

LP == Tok("tok_lparen", <<"(">>)

RP == Tok("tok_rparen", <<")">>)

Comma == Tok("tok_comma", <<",">>)

Op(kind) == Tok(kind, <<"o">>)

\* The operands of the chains: a variable, a literal, a call, a
\* parenthesized expression.
OperandForms ==
    { <<Sym("a")>>,
      <<Num(<<"1">>)>>,
      <<Sym("f"), LP, Sym("a"), RP>>,
      <<LP, Sym("a"), Op("tok_minus"), Num(<<"1">>), RP>> }

\* The chains e1 op1 e2 ... en of n operands, each given by its operands and
\* its operators: the last operator is any of the five, the ones before it a
\* subtraction or a concatenation.
RECURSIVE ChainSpecs(_)
ChainSpecs(n) ==
    IF n = 1 THEN {[operands |-> <<e>>, ops |-> <<>>] : e \in OperandForms}
    ELSE {[operands |-> <<e>> \o c.operands, ops |-> <<o>> \o c.ops] :
            e \in OperandForms,
            o \in IF n = 2 THEN BinaryOps ELSE {"tok_minus", "tok_concat"},
            c \in ChainSpecs(n - 1)}

\* The token sequence of a chain.
RECURSIVE ChainText(_, _)
ChainText(operands, ops) ==
    IF ops = <<>> THEN Head(operands)
    ELSE Head(operands) \o <<Op(Head(ops))>> \o ChainText(Tail(operands), Tail(ops))

Chains(n) == {ChainText(c.operands, c.ops) : c \in ChainSpecs(n)}

\* The token sequences of the texts the specification names, and a few more.
TokenExamples ==
    { <<Sym("a"), Op("tok_minus"), Sym("b"), Op("tok_minus"), Sym("c")>>,
      <<Sym("f"), LP, Sym("a"), Comma, Sym("b"), RP>>,
      <<Sym("f"), LP, Sym("a"), Op("tok_plus"), Sym("b"), Comma, Sym("c"), RP>>,
      <<Sym("f"), LP, Sym("g"), LP, Sym("a"), Comma, Sym("b"), RP, Comma, Num(<<"1">>),
        Comma, Sym("c"), RP>>,
      <<Sym("f"), LP, Sym("a"), Comma, RP>>,
      <<Sym("x"), Tok("tok_equal", <<"=">>), Sym("f"), LP, RP>>,
      <<Sym("a"), Tok("tok_equal", <<"=">>), Num(<<"1">>), Op("tok_plus"), Num(<<"2">>)>>,
      <<Sym("x"), Tok("tok_equal", <<"=">>), Num(<<"1">>)>>,
      <<LP, Sym("a"), Op("tok_plus"), Sym("b")>>,
      <<Sym("a"), Op("tok_plus"), Sym("b"), RP>>,
      <<Sym("a"), Tok("tok_consumable", <<>>), Sym("b")>> }

TokenSeqs ==
    SeqsUpTo(TokenAlphabet, MaxTokens)
        \cup UNION {Chains(n) : n \in 2..MaxChain}
        \cup TokenExamples

\* What a treeify that read a token through nullptr can end as.
TreeifyUBOutcomes == {"crashed", "SyntaxError", "returned"}

\* st_t* tree = treeify(tokens);
Treeify ==
    /\ pc = "treeify"
    /\ LET t == treeify(tokens)
       IN  /\ root' = t.value
           /\ cursor' = t.s
           /\ IF t.status = "UB"
              THEN pc' \in TreeifyUBOutcomes /\ ub' = TRUE
              ELSE /\ pc' = IF t.status = "returned" THEN "eval" ELSE "SyntaxError"
                   /\ ub' = ub
    /\ UNCHANGED <<tokens, calls, result, csvars, lexvars, concvars>>

\* tree->eval(ct) on the tree treeify returned. After undefined behaviour
\* the run may crash or go on; the calls made before it stand.
Evaluate ==
    /\ pc = "eval"
    /\ \E order \in ArgOrders :
          LET e == eval(root, order)
          IN  /\ calls' = e.calls
              /\ result' = e.ref
              /\ IF e.ub
                 THEN pc' \in {"crashed", "done"} /\ ub' = TRUE
                 ELSE pc' = "done" /\ ub' = ub
    /\ UNCHANGED <<tokens, root, cursor, csvars, lexvars, concvars>>

(***************************************************************************)
(* Two treeify calls running at once                                       *)
(*                                                                         *)
(* st_t* x is one object of namespace scope: every parse_expr of every     *)
(* thread assigns it and reads it back. Each thread runs the rules as a    *)
(* stack of frames, one step at a time; the steps of the two threads       *)
(* interleave in any order. The other locals of a rule live in its frame.  *)
(* A frame's cell is the index of the frame that holds the cursor its      *)
(* token_t** s points to (the s of treeify or the r of a rule).            *)
(***************************************************************************)

Threads == {1, 2}

Frame(fn, cell) ==
    [fn |-> fn, at |-> "start", cell |-> cell, r |-> 1, node |-> NoNode,
     values |-> <<>>, fname |-> <<>>, op_token |-> "tok_undef",
     allow_tok_binary |-> FALSE, allow_set |-> FALSE, alt |-> 0]

\* The alternatives of parse_expr in the order it tries them.
Alternatives ==
    <<"parse_tok_binary_expr", "parse_set", "parse_fcall", "parse_parenthesized",
      "parse_variable", "parse_restricted", "parse_value">>

\* The first alternative from k on that the flags of the parse_expr frame f
\* let it try; Len(Alternatives) + 1 when none is left.
RECURSIVE NextAlternative(_, _)
NextAlternative(f, k) ==
    IF k = 1 /\ ~f.allow_tok_binary THEN NextAlternative(f, 2)
    ELSE IF k = 2 /\ ~f.allow_set THEN NextAlternative(f, 3)
    ELSE k

\* A parse_expr(s, allow_tok_binary, allow_set) about to start.
ExprFrame(cell, allow_tok_binary, allow_set) ==
    LET f == [Frame("parse_expr", cell) EXCEPT !.allow_tok_binary = allow_tok_binary,
                                                !.allow_set = allow_set]
    IN  [f EXCEPT !.at = "call", !.alt = NextAlternative(f, 1)]

\* A thread about to call treeify(toks).
StartThread(toks) ==
    [toks |-> toks, stack |-> <<Frame("treeify", 1)>>, ret |-> NoNode,
     status |-> "running", value |-> NoNode, ub |-> FALSE]

\* No thread.
IdleThread ==
    [toks |-> <<>>, stack |-> <<>>, ret |-> NoNode, status |-> "idle",
     value |-> NoNode, ub |-> FALSE]

Depth(th) == Len(th.stack)

Top(th) == th.stack[Depth(th)]

\* The thread is in function fn at the point at.
At(th, fn, at) ==
    /\ th.status = "running"
    /\ Depth(th) > 0
    /\ Top(th).fn = fn
    /\ Top(th).at = at

\* *s of the running function
Cursor(th) == th.stack[Top(th).cell].r

\* return node;
Return(th, node) ==
    [th EXCEPT !.stack = SubSeq(@, 1, Len(@) - 1), !.ret = node]

\* *s = cur; return node;
ReturnMoved(th, node, cur) ==
    [th EXCEPT !.stack = SubSeq([@ EXCEPT ![Top(th).cell].r = cur], 1, Len(@) - 1),
               !.ret = node]

\* The running function, its frame now top, calls callee.
Call(th, top, callee) ==
    [th EXCEPT !.stack = Append([@ EXCEPT ![Depth(th)] = top], callee)]

\* The running function goes on with its frame now top.
Goto(th, top) == [th EXCEPT !.stack[Depth(th)] = top]

Becomes(t, th) == thread' = [thread EXCEPT ![t] = th]

\* Thread t reads a token through a null cursor: undefined behaviour. The
\* call ends in any way; a crash ends the process, the other thread with it.
NullDeref(t) ==
    \E o \in TreeifyUBOutcomes :
        thread' = [u \in Threads |->
                     IF u = t
                     THEN [thread[u] EXCEPT !.status = o, !.ub = TRUE, !.stack = <<>>,
                                            !.value = NoNode]
                     ELSE IF o = "crashed" /\ thread[u].status = "running"
                     THEN [thread[u] EXCEPT !.status = "crashed", !.stack = <<>>]
                     ELSE thread[u]]

\* treeify: token_t* s = tokens; st_t* value = parse_expr(&s, true, true);
TreeifyCall(t) ==
    /\ At(thread[t], "treeify", "start")
    /\ LET th == thread[t]
       IN  Becomes(t, Call(th, [Top(th) EXCEPT !.at = "got_value", !.r = 1],
                           ExprFrame(Depth(th), TRUE, TRUE)))
    /\ UNCHANGED <<x, csvars, lexvars, runvars>>

\* treeify: if (s) throw ...; return value;
TreeifyReturn(t) ==
    /\ At(thread[t], "treeify", "got_value")
    /\ LET th == thread[t]
       IN  IF ~IsNull(th.toks, Top(th).r)
           THEN Becomes(t, [th EXCEPT !.status = "SyntaxError", !.stack = <<>>])
           ELSE Becomes(t, [th EXCEPT !.status = "returned", !.value = th.ret,
                                      !.stack = <<>>])
    /\ UNCHANGED <<x, csvars, lexvars, runvars>>

\* try(parser): the call parser(s)
TryCall(t) ==
    /\ At(thread[t], "parse_expr", "call")
    /\ Top(thread[t]).alt <= Len(Alternatives)
    /\ LET th == thread[t]
           f == Top(th)
       IN  Becomes(t, Call(th, [f EXCEPT !.at = "assign"],
                           Frame(Alternatives[f.alt], f.cell)))
    /\ UNCHANGED <<x, csvars, lexvars, runvars>>

\* try(parser): x = <what parser(s) returned>
TryAssign(t) ==
    /\ At(thread[t], "parse_expr", "assign")
    /\ x' = thread[t].ret
    /\ Becomes(t, Goto(thread[t], [Top(thread[t]) EXCEPT !.at = "test"]))
    /\ UNCHANGED <<csvars, lexvars, runvars>>

\* try(parser): if (x)
TryTest(t) ==
    /\ At(thread[t], "parse_expr", "test")
    /\ LET th == thread[t]
           f == Top(th)
       IN  IF x # NoNode
           THEN Becomes(t, Goto(th, [f EXCEPT !.at = "return"]))
           ELSE Becomes(t, Goto(th, [f EXCEPT !.at = "call",
                                              !.alt = NextAlternative(f, f.alt + 1)]))
    /\ UNCHANGED <<x, csvars, lexvars, runvars>>

\* try(parser): return x
TryReturn(t) ==
    /\ At(thread[t], "parse_expr", "return")
    /\ Becomes(t, Return(thread[t], x))
    /\ UNCHANGED <<x, csvars, lexvars, runvars>>

\* parse_expr: return nullptr
ExprReturnsNull(t) ==
    /\ At(thread[t], "parse_expr", "call")
    /\ Top(thread[t]).alt > Len(Alternatives)
    /\ Becomes(t, Return(thread[t], NoNode))
    /\ UNCHANGED <<x, csvars, lexvars, runvars>>

ParseVariable(t) ==
    /\ At(thread[t], "parse_variable", "start")
    /\ LET th == thread[t]
       IN  IF IsNull(th.toks, Cursor(th)) THEN NullDeref(t)
           ELSE LET res == parse_variable(th.toks, Cursor(th))
                IN  Becomes(t, ReturnMoved(th, res.node, res.s))
    /\ UNCHANGED <<x, csvars, lexvars, runvars>>

ParseValue(t) ==
    /\ At(thread[t], "parse_value", "start")
    /\ LET th == thread[t]
       IN  IF IsNull(th.toks, Cursor(th)) THEN NullDeref(t)
           ELSE LET res == parse_value(th.toks, Cursor(th), "tok_undef")
                IN  Becomes(t, ReturnMoved(th, res.node, res.s))
    /\ UNCHANGED <<x, csvars, lexvars, runvars>>

ParseRestricted(t) ==
    /\ At(thread[t], "parse_restricted", "start")
    /\ LET th == thread[t]
       IN  IF IsNull(th.toks, Cursor(th)) THEN NullDeref(t)
           ELSE LET res == parse_restricted(th.toks, Cursor(th))
                IN  Becomes(t, ReturnMoved(th, res.node, res.s))
    /\ UNCHANGED <<x, csvars, lexvars, runvars>>

\* parse_set up to st_t* val = parse_expr(&r);
ParseSetCall(t) ==
    /\ At(thread[t], "parse_set", "start")
    /\ LET th == thread[t]
           f == Top(th)
       IN  IF IsNull(th.toks, Cursor(th)) THEN NullDeref(t)
           ELSE LET var == parse_variable(th.toks, Cursor(th))
                    r == var.s
                IN  IF Failed(var) THEN Becomes(t, Return(th, NoNode))
                    ELSE IF IsNull(th.toks, r) \/ IsNull(th.toks, r + 1)
                            \/ th.toks[r].token # "tok_equal"
                    THEN Becomes(t, Return(th, NoNode))
                    ELSE Becomes(t, Call(th, [f EXCEPT !.at = "got_val", !.r = r + 1,
                                                       !.node = var.node],
                                         ExprFrame(Depth(th), TRUE, FALSE)))
    /\ UNCHANGED <<x, csvars, lexvars, runvars>>

\* parse_set from if (!val) on
ParseSetReturn(t) ==
    /\ At(thread[t], "parse_set", "got_val")
    /\ LET th == thread[t]
           f == Top(th)
       IN  IF th.ret = NoNode THEN Becomes(t, Return(th, NoNode))
           ELSE Becomes(t, ReturnMoved(th, set_t(f.node.varname, th.ret), f.r))
    /\ UNCHANGED <<x, csvars, lexvars, runvars>>

\* parse_parenthesized up to st_t* v = parse_expr(&r);
ParseParenthesizedCall(t) ==
    /\ At(thread[t], "parse_parenthesized", "start")
    /\ LET th == thread[t]
           f == Top(th)
           r == Cursor(th)
       IN  IF IsNull(th.toks, r) THEN NullDeref(t)
           ELSE IF th.toks[r].token # "tok_lparen" \/ IsNull(th.toks, r + 1)
           THEN Becomes(t, Return(th, NoNode))
           ELSE Becomes(t, Call(th, [f EXCEPT !.at = "got_v", !.r = r + 1],
                                ExprFrame(Depth(th), TRUE, FALSE)))
    /\ UNCHANGED <<x, csvars, lexvars, runvars>>

\* parse_parenthesized from if (!v) on
ParseParenthesizedReturn(t) ==
    /\ At(thread[t], "parse_parenthesized", "got_v")
    /\ LET th == thread[t]
           r == Top(th).r
       IN  IF th.ret = NoNode THEN Becomes(t, Return(th, NoNode))
           ELSE IF IsNull(th.toks, r) \/ th.toks[r].token # "tok_rparen"
           THEN Becomes(t, Return(th, NoNode))
           ELSE Becomes(t, ReturnMoved(th, th.ret, r + 1))
    /\ UNCHANGED <<x, csvars, lexvars, runvars>>

\* parse_tok_binary_expr: token_t* r = *s; st_t* lhs = parse_expr(&r, false);
ParseTokBinaryExprCall(t) ==
    /\ At(thread[t], "parse_tok_binary_expr", "start")
    /\ LET th == thread[t]
       IN  Becomes(t, Call(th, [Top(th) EXCEPT !.at = "got_lhs", !.r = Cursor(th)],
                           ExprFrame(Depth(th), FALSE, FALSE)))
    /\ UNCHANGED <<x, csvars, lexvars, runvars>>

\* parse_tok_binary_expr from if (!lhs) to the call of
\* parse_tok_binary_expr_post_lhs(&r, lhs)
ParseTokBinaryExprPostLhs(t) ==
    /\ At(thread[t], "parse_tok_binary_expr", "got_lhs")
    /\ LET th == thread[t]
           f == Top(th)
       IN  IF th.ret = NoNode \/ IsNull(th.toks, f.r)
           THEN Becomes(t, Return(th, NoNode))
           ELSE Becomes(t, Call(th, [f EXCEPT !.at = "got_res"],
                                [Frame("parse_tok_binary_expr_post_lhs", Depth(th))
                                    EXCEPT !.node = th.ret]))
    /\ UNCHANGED <<x, csvars, lexvars, runvars>>

\* parse_tok_binary_expr from if (!res) on
ParseTokBinaryExprReturn(t) ==
    /\ At(thread[t], "parse_tok_binary_expr", "got_res")
    /\ LET th == thread[t]
       IN  IF th.ret = NoNode THEN Becomes(t, Return(th, NoNode))
           ELSE Becomes(t, ReturnMoved(th, th.ret, Top(th).r))
    /\ UNCHANGED <<x, csvars, lexvars, runvars>>

\* parse_tok_binary_expr_post_lhs up to st_t* rhs = parse_expr(&r);
PostLhsCall(t) ==
    /\ At(thread[t], "parse_tok_binary_expr_post_lhs", "start")
    /\ LET th == thread[t]
           f == Top(th)
           r == Cursor(th)
       IN  IF IsNull(th.toks, r) THEN NullDeref(t)
           ELSE IF th.toks[r].token \notin BinaryOps \/ IsNull(th.toks, r + 1)
           THEN Becomes(t, Return(th, NoNode))
           ELSE Becomes(t, Call(th, [f EXCEPT !.at = "got_rhs", !.r = r + 1,
                                              !.op_token = th.toks[r].token],
                                ExprFrame(Depth(th), TRUE, FALSE)))
    /\ UNCHANGED <<x, csvars, lexvars, runvars>>

\* parse_tok_binary_expr_post_lhs from if (!rhs) on
PostLhsReturn(t) ==
    /\ At(thread[t], "parse_tok_binary_expr_post_lhs", "got_rhs")
    /\ LET th == thread[t]
           f == Top(th)
       IN  IF th.ret = NoNode THEN Becomes(t, Return(th, NoNode))
           ELSE Becomes(t, ReturnMoved(th, bin_t(f.op_token, f.node, th.ret), f.r))
    /\ UNCHANGED <<x, csvars, lexvars, runvars>>

\* parse_csv: how it leaves the while loop with values and r
CsvLeave(th, values, r) ==
    IF Len(values) = 0 THEN Return(th, NoNode)
    ELSE ReturnMoved(th, list_t(values), r)

\* parse_csv: token_t* r = *s; while (r) { st_t* next = parse_expr(&r);
ParseCsvCall(t) ==
    /\ \/ At(thread[t], "parse_csv", "start")
       \/ At(thread[t], "parse_csv", "loop")
    /\ LET th == thread[t]
           f == Top(th)
           r == IF f.at = "start" THEN Cursor(th) ELSE f.r
       IN  IF IsNull(th.toks, r) THEN Becomes(t, CsvLeave(th, f.values, r))
           ELSE Becomes(t, Call(th, [f EXCEPT !.at = "got_next", !.r = r],
                                ExprFrame(Depth(th), TRUE, FALSE)))
    /\ UNCHANGED <<x, csvars, lexvars, runvars>>

\* parse_csv: the rest of the loop body, and what follows the loop
ParseCsvNext(t) ==
    /\ At(thread[t], "parse_csv", "got_next")
    /\ LET th == thread[t]
           f == Top(th)
           values == Append(f.values, th.ret)
       IN  IF th.ret = NoNode THEN Becomes(t, CsvLeave(th, f.values, f.r))
           ELSE IF IsNull(th.toks, f.r) \/ th.toks[f.r].token # "tok_comma"
           THEN Becomes(t, CsvLeave(th, values, f.r))
           ELSE Becomes(t, Goto(th, [f EXCEPT !.at = "loop", !.r = f.r + 1,
                                              !.values = values]))
    /\ UNCHANGED <<x, csvars, lexvars, runvars>>

\* parse_fcall up to list_t* args = (list_t*)parse_csv(&r);
ParseFcallCall(t) ==
    /\ At(thread[t], "parse_fcall", "start")
    /\ LET th == thread[t]
           f == Top(th)
           r == Cursor(th)
       IN  IF IsNull(th.toks, r) THEN NullDeref(t)
           ELSE IF th.toks[r].token # "tok_symbol" THEN Becomes(t, Return(th, NoNode))
           ELSE IF IsNull(th.toks, r + 1) \/ IsNull(th.toks, r + 2)
                   \/ th.toks[r + 1].token # "tok_lparen"
           THEN Becomes(t, Return(th, NoNode))
           ELSE Becomes(t, Call(th, [f EXCEPT !.at = "got_args", !.r = r + 2,
                                              !.fname = th.toks[r].value],
                                Frame("parse_csv", Depth(th))))
    /\ UNCHANGED <<x, csvars, lexvars, runvars>>

\* parse_fcall from if (!r) on
ParseFcallReturn(t) ==
    /\ At(thread[t], "parse_fcall", "got_args")
    /\ LET th == thread[t]
           f == Top(th)
       IN  IF IsNull(th.toks, f.r) THEN Becomes(t, Return(th, NoNode))
           ELSE IF th.toks[f.r].token # "tok_rparen" THEN Becomes(t, Return(th, NoNode))
           ELSE Becomes(t, ReturnMoved(th, call_t(f.fname, th.ret), f.r + 1))
    /\ UNCHANGED <<x, csvars, lexvars, runvars>>

\* The texts of the first thread: "a", "a - 1", "f(a)".
FirstTexts ==
    { <<Sym("a")>>,
      <<Sym("a"), Op("tok_minus"), Num(<<"1">>)>>,
      <<Sym("f"), LP, Sym("a"), RP>> }

\* The texts of the second thread: "b", "(b)", "b = 1".
SecondTexts ==
    { <<Sym("b")>>,
      <<LP, Sym("b"), RP>>,
      <<Sym("b"), Tok("tok_equal", <<"=">>), Num(<<"1">>)>> }

vars == <<m_stack_size, m_first_false_pos, vec, lex, tokens, pc, root, cursor, calls,
          result, ub, x, thread>>

\* No run on a token sequence.
RunIdle ==
    /\ tokens = <<>>
    /\ pc = "idle"
    /\ root = NoNode
    /\ cursor = 1
    /\ calls = <<>>
    /\ result = nullref
    /\ ub = FALSE

InitCond ==
    /\ m_stack_size = 0
    /\ m_first_false_pos = NO_FALSE
    /\ vec = <<>>
    /\ lex = LexStart
    /\ RunIdle
    /\ x = NoNode
    /\ thread = [t \in Threads |-> IdleThread]

NextCond ==
    \/ \E f \in BOOLEAN : push_back(f)
    \/ pop_back
    \/ toggle_top

SpecCond == InitCond /\ [][NextCond]_vars

InitLex ==
    /\ lex = LexStart
    /\ m_stack_size = 0
    /\ m_first_false_pos = NO_FALSE
    /\ vec = <<>>
    /\ RunIdle
    /\ x = NoNode
    /\ thread = [t \in Threads |-> IdleThread]

NextLex ==
    \/ \E c \in Chars : Scan(c)
    \/ EndOfText

SpecLex == InitLex /\ [][NextLex]_vars

Init ==
    /\ tokens \in TokenSeqs
    /\ pc = "treeify"
    /\ root = NoNode
    /\ cursor = 1
    /\ calls = <<>>
    /\ result = nullref
    /\ ub = FALSE
    /\ lex = LexStart
    /\ m_stack_size = 0
    /\ m_first_false_pos = NO_FALSE
    /\ vec = <<>>
    /\ x = NoNode
    /\ thread = [t \in Threads |-> IdleThread]

Next ==
    \/ Treeify
    \/ Evaluate

Spec == Init /\ [][Next]_vars

\* x is zero-initialized; each thread is about to call treeify on a text of
\* its own.
InitConc ==
    /\ x = NoNode
    /\ thread \in {[t \in Threads |-> StartThread(IF t = 1 THEN first ELSE second)] :
                     first \in FirstTexts, second \in SecondTexts}
    /\ tokens = <<>>
    /\ pc = "idle"
    /\ root = NoNode
    /\ cursor = 1
    /\ calls = <<>>
    /\ result = nullref
    /\ ub = FALSE
    /\ lex = LexStart
    /\ m_stack_size = 0
    /\ m_first_false_pos = NO_FALSE
    /\ vec = <<>>

NextConc ==
    \/ \E t \in Threads : TreeifyCall(t)
    \/ \E t \in Threads : TreeifyReturn(t)
    \/ \E t \in Threads : TryCall(t)
    \/ \E t \in Threads : TryAssign(t)
    \/ \E t \in Threads : TryTest(t)
    \/ \E t \in Threads : TryReturn(t)
    \/ \E t \in Threads : ExprReturnsNull(t)
    \/ \E t \in Threads : ParseVariable(t)
    \/ \E t \in Threads : ParseValue(t)
    \/ \E t \in Threads : ParseRestricted(t)
    \/ \E t \in Threads : ParseSetCall(t)
    \/ \E t \in Threads : ParseSetReturn(t)
    \/ \E t \in Threads : ParseParenthesizedCall(t)
    \/ \E t \in Threads : ParseParenthesizedReturn(t)
    \/ \E t \in Threads : ParseTokBinaryExprCall(t)
    \/ \E t \in Threads : ParseTokBinaryExprPostLhs(t)
    \/ \E t \in Threads : ParseTokBinaryExprReturn(t)
    \/ \E t \in Threads : PostLhsCall(t)
    \/ \E t \in Threads : PostLhsReturn(t)
    \/ \E t \in Threads : ParseCsvCall(t)
    \/ \E t \in Threads : ParseCsvNext(t)
    \/ \E t \in Threads : ParseFcallCall(t)
    \/ \E t \in Threads : ParseFcallReturn(t)

SpecConc == InitConc /\ [][NextConc]_vars

(***************************************************************************)
(* Claims about treeify and eval, checked under Spec                       *)
(***************************************************************************)

\* treeify has been called on tokens and has ended.
TreeifyDone == pc \notin {"idle", "treeify"}

\* C1: treeify returns a tree only when the top-level parse consumed every
\* token; whenever the top-level parse stops with a token remaining (no
\* alternative matched, "(a + b", "a + b )"), treeify fails with a
\* SyntaxError and returns no tree.
C1_TreeOnlyWhenAllConsumed ==
    TreeifyDone =>
        /\ root # NoNode => IsNull(tokens, cursor)
        /\ ~IsNull(tokens, cursor) => pc = "SyntaxError" /\ root = NoNode
        /\ tokens \in { <<LP, Sym("a"), Op("tok_plus"), Sym("b")>>,
                        <<Sym("a"), Op("tok_plus"), Sym("b"), RP>>,
                        <<RP>> }
              => pc = "SyntaxError" /\ root = NoNode

\* "a + b )": the parse consumed a + b, stopped at the ")" and treeify threw.
C1_Witness ==
    /\ tokens = <<Sym("a"), Op("tok_plus"), Sym("b"), RP>>
    /\ pc = "SyntaxError"
    /\ cursor = 4
    /\ root = NoNode

\* The tree of each operand of the chains.
OperandTree(e) ==
    CASE e = <<Sym("a")>> -> var_t(<<"a">>)
      [] e = <<Num(<<"1">>)>> -> value_t("tok_number", <<"1">>, "tok_undef")
      [] e = <<Sym("f"), LP, Sym("a"), RP>> -> call_t(<<"f">>, list_t(<<var_t(<<"a">>)>>))
      [] e = <<LP, Sym("a"), Op("tok_minus"), Num(<<"1">>), RP>> ->
            bin_t("tok_minus", var_t(<<"a">>), value_t("tok_number", <<"1">>, "tok_undef"))

\* BinaryOp(op1, e1, BinaryOp(op2, e2, ...))
RECURSIVE RightNested(_, _)
RightNested(operands, ops) ==
    IF ops = <<>> THEN OperandTree(Head(operands))
    ELSE bin_t(Head(ops), OperandTree(Head(operands)),
               RightNested(Tail(operands), Tail(ops)))

AllChainSpecs == UNION {ChainSpecs(n) : n \in 2..MaxChain}

AllChainTexts == {ChainText(c.operands, c.ops) : c \in AllChainSpecs}

\* Each chain's token sequence with the tree that groups it to the right.
RightNestedTable ==
    {<<ChainText(c.operands, c.ops), RightNested(c.operands, c.ops)>> : c \in AllChainSpecs}

\* The value of a ref in the contract where a = 5, b = 3, c = 1 and
\* bin(minus, x, y) = x - y.
RECURSIVE ValueOf(_)
ValueOf(ref) ==
    CASE ref.call = "load" /\ ref.variable = <<"a">> -> 5
      [] ref.call = "load" /\ ref.variable = <<"b">> -> 3
      [] ref.call = "load" /\ ref.variable = <<"c">> -> 1
      [] ref.call = "bin" /\ ref.op = "tok_minus" -> ValueOf(ref.lhs) - ValueOf(ref.rhs)

AMinusBMinusC == <<Sym("a"), Op("tok_minus"), Sym("b"), Op("tok_minus"), Sym("c")>>

\* C2: chained binary operators group to the right with no precedence:
\* treeify of e1 op1 e2 op2 ... en yields BinaryOp(op1, e1, BinaryOp(op2, e2,
\* ...)), and a-b-c with a = 5, b = 3, c = 1 evaluates to 5-(3-1) = 3.
C2_ChainsGroupRight ==
    /\ (TreeifyDone /\ tokens \in AllChainTexts) =>
          /\ pc \in {"eval", "done"}
          /\ <<tokens, root>> \in RightNestedTable
    /\ (TreeifyDone /\ tokens = AMinusBMinusC) =>
          root = bin_t("tok_minus", var_t(<<"a">>),
                       bin_t("tok_minus", var_t(<<"b">>), var_t(<<"c">>)))
    /\ (pc = "done" /\ tokens = AMinusBMinusC) => ValueOf(result) = 3

\* a-b-c has been evaluated, to 3.
C2_Witness ==
    /\ tokens = AMinusBMinusC
    /\ pc = "done"
    /\ ValueOf(result) = 3

\* C5: name() parses to a Call node whose argument list is a present list of
\* length 0, and evaluating it makes exactly one call fcall(name, 0, [])
\* and nothing else.
C5_ZeroArgumentCall ==
    tokens = <<Sym("f"), LP, RP>> =>
        /\ pc # "crashed"
        /\ pc \in {"eval", "done"} => root = call_t(<<"f">>, list_t(<<>>))
        /\ pc = "done" => ~ub /\ calls = <<fcall(<<"f">>, 0, <<>>)>>

\* The calls made by evaluating values one after the other from the first on,
\* and the refs they returned in that order.
RECURSIVE InSourceOrder(_, _)
InSourceOrder(values, order) ==
    IF values = <<>> THEN [calls |-> <<>>, refs |-> <<>>]
    ELSE LET e == eval(Head(values), order)
             rest == InSourceOrder(Tail(values), order)
         IN  [calls |-> e.calls \o rest.calls, refs |-> <<e.ref>> \o rest.refs]

FOfAB == <<Sym("f"), LP, Sym("a"), Comma, Sym("b"), RP>>

C12_LeftOperandFirst ==
    (pc = "done" /\ ~ub /\ root.k = "bin_t") =>
        \E left \in ArgOrders, right \in ArgOrders :
            LET l == eval(root.lhs, left)
                r == eval(root.rhs, right)
                c == bin(root.op_token, l.ref, r.ref)
            IN  calls = l.calls \o r.calls \o <<c>>

XIsOne == <<Sym("x"), Tok("tok_equal", <<"=">>), Num(<<"1">>)>>

\* The calls of the kind given among calls.
CallsOfKind(made, kind) == {i \in 1..Len(made) : made[i].call = kind}

C17_TreeifyIsTotal ==
    TreeifyDone =>
        /\ \/ pc = "SyntaxError" /\ root = NoNode
           \/ pc \in {"eval", "done", "crashed"} /\ root # NoNode
        /\ ub => root # NoNode

\* The nodes of the tree at node that are of the kind given.
RECURSIVE NodesOfKind(_, _)
RECURSIVE NodesOfKindIn(_, _)
NodesOfKindIn(values, kind) ==
    IF values = <<>> THEN 0
    ELSE NodesOfKind(Head(values), kind) + NodesOfKindIn(Tail(values), kind)

NodesOfKind(node, kind) ==
    (IF node.k = kind THEN 1 ELSE 0)
    + CASE node.k = "set_t" -> NodesOfKind(node.value, kind)
        [] node.k = "bin_t" -> NodesOfKind(node.lhs, kind) + NodesOfKind(node.rhs, kind)
        [] node.k = "call_t" -> NodesOfKind(node.args, kind)
        [] node.k = "list_t" -> NodesOfKindIn(node.values, kind)
        [] OTHER -> 0

\* The call each kind of node makes.
CallOfNode ==
    [var_t |-> "load", value_t |-> "convert", set_t |-> "save", call_t |-> "fcall",
     bin_t |-> "bin"]

\* tree->eval(ct) has been called on the tree treeify returned.
EvalDone == pc \in {"done", "crashed"} /\ root # NoNode

\* C18: evaluating a tree returned by treeify makes exactly one call per
\* Variable (load), Literal (convert), Assignment (save), Call (fcall) and
\* BinaryOp (bin) node and none for a List node, so the number of calls is the
\* number of non-List nodes; unary is never called.
C18_OneCallPerNode ==
    EvalDone =>
        /\ pc = "done"
        /\ \A kind \in DOMAIN CallOfNode :
              Cardinality(CallsOfKind(calls, CallOfNode[kind])) = NodesOfKind(root, kind)
        /\ CallsOfKind(calls, "unary") = {}
        /\ Len(calls) = NodesOfKind(root, "var_t") + NodesOfKind(root, "value_t")
                         + NodesOfKind(root, "set_t") + NodesOfKind(root, "call_t")
                         + NodesOfKind(root, "bin_t")

\* The run on tokens is over: treeify threw, or eval has ended.
RunEnded == pc \in {"SyntaxError", "done", "crashed", "returned"}

\* What each grammar rule hands back when called with the cursor at s.
RuleResults(toks, s) ==
    { parse_variable(toks, s),
      parse_value(toks, s, "tok_undef"),
      parse_value(toks, s, "tok_hex"),
      parse_restricted(toks, s),
      parse_set(toks, s),
      parse_parenthesized(toks, s),
      parse_fcall(toks, s),
      parse_csv(toks, s),
      parse_tok_binary_expr(toks, s),
      parse_tok_binary_expr_post_lhs(toks, s, var_t(<<"l">>)) }
      \cup {parse_expr(toks, s, b, e) : b \in BOOLEAN, e \in BOOLEAN}

\* C11: whenever a grammar rule returns no node, the caller's cursor is what
\* it was before the call; the cursor advances only when a node is returned.
C11_NoPartialConsumption ==
    RunEnded =>
        \A s \in 1..Len(tokens) :
            \A res \in RuleResults(tokens, s) :
                /\ Failed(res) => res.s = s
                /\ res.s # s => (~Failed(res) /\ res.s > s)

\* "( a + b": parse_parenthesized parsed a + b behind the "(", found no ")"
\* and failed; the top-level cursor is still on the "(".
C11_Witness ==
    /\ tokens = <<LP, Sym("a"), Op("tok_plus"), Sym("b")>>
    /\ pc = "SyntaxError"
    /\ cursor = 1
    /\ Failed(parse_parenthesized(tokens, 1))
    /\ ~Failed(parse_expr(tokens, 2, TRUE, FALSE))

FOfAComma == <<Sym("f"), LP, Sym("a"), Comma, RP>>

\* s is where parse_fcall calls parse_csv: behind a symbol and a "(".
ArgumentListAt(toks, s) ==
    /\ s \in 3..Len(toks)
    /\ toks[s - 2].token = "tok_symbol"
    /\ toks[s - 1].token = "tok_lparen"

\* C21: a call's argument list is expr (',' expr)*: the last token parse_csv
\* consumes for it is never a comma, and treeify fails on f(a,) with a
\* SyntaxError instead of returning a Call node.
C21_NoTrailingComma ==
    TreeifyDone =>
        /\ \A s \in 1..Len(tokens) :
              ArgumentListAt(tokens, s) =>
                  LET res == parse_csv(tokens, s)
                  IN  ~Failed(res) => tokens[res.s - 1].token # "tok_comma"
        /\ tokens = FOfAComma =>
              /\ pc = "SyntaxError"
              /\ root = NoNode

(***************************************************************************)
(* Claims about concurrent treeify calls, checked under SpecConc           *)
(***************************************************************************)

\* How treeify(toks) ends when it runs alone.
Alone(toks) ==
    LET t == treeify(toks) IN [status |-> t.status, value |-> t.value]

\* C7: two treeify calls running at once on separate token sequences share
\* no state: however their steps interleave, each ends as it ends when run
\* alone, with the same tree or the same SyntaxError.
C7_ConcurrentCallsAreIndependent ==
    \A t \in Threads :
        thread[t].status \notin {"idle", "running"} =>
            [status |-> thread[t].status, value |-> thread[t].value] = Alone(thread[t].toks)

(***************************************************************************)
(* Claims about tokenize, checked under SpecLex                            *)
(***************************************************************************)

LexDone == lex.status # "scanning"

Letter == Lower \cup Upper \cup {"_"}

Whitespace == {" ", "\t", "\n"}

\* The single-character tokens of C3 and their kinds.
StructuralChar == {"+", "-", "*", "/", ",", "=", "(", ")"}

KindOfChar(c) ==
    CASE c = "+" -> "tok_plus"
      [] c = "-" -> "tok_minus"
      [] c = "*" -> "tok_mul"
      [] c = "/" -> "tok_div"
      [] c = "," -> "tok_comma"
      [] c = "=" -> "tok_equal"
      [] c = "(" -> "tok_lparen"
      [] c = ")" -> "tok_rparen"

\* The last position of the run of letters, digits and underscores at k.
RECURSIVE RunEnd(_, _)
RunEnd(text, k) ==
    IF k < Len(text) /\ text[k + 1] \in Letter \cup Digit
    THEN RunEnd(text, k + 1)
    ELSE k

\* The token sequence C3 describes: one token per run and per structural
\* character, in source order, none for whitespace.
RECURSIVE TokensPerRun(_, _)
TokensPerRun(text, k) ==
    IF k > Len(text) THEN <<>>
    ELSE IF text[k] \in Whitespace THEN TokensPerRun(text, k + 1)
    ELSE IF text[k] \in StructuralChar
    THEN <<[token |-> KindOfChar(text[k]), value |-> <<text[k]>>, null |-> FALSE]>>
         \o TokensPerRun(text, k + 1)
    ELSE LET e == RunEnd(text, k)
         IN  <<[token |-> IF text[k] \in Digit THEN "tok_number" ELSE "tok_symbol",
                value |-> SubSeq(text, k, e), null |-> FALSE]>>
             \o TokensPerRun(text, e + 1)

\* A text of symbols, decimal numbers, structural characters and whitespace
\* that starts with a symbol or a number: every run that starts with a digit
\* is all digits (a decimal number), every other run is a symbol.
SymbolNumberText(text) ==
    /\ text # <<>>
    /\ \A k \in 1..Len(text) :
          text[k] \in Letter \cup Digit \cup StructuralChar \cup Whitespace
    /\ text[1] \in Letter \cup Digit
    /\ \A k \in 1..Len(text) :
          (/\ text[k] \in Digit
           /\ (k = 1 \/ text[k - 1] \notin Letter \cup Digit))
          => \A j \in k..RunEnd(text, k) : text[j] \in Digit

\* C3: for a text of symbols, decimal numbers, the characters + - * / , = ( )
\* and whitespace that starts with a symbol or a number, tokenize returns one
\* token per run and per structural character, in source order, each with its
\* kind and text, and none for whitespace.
C3_OneTokenPerRun ==
    (LexDone /\ SymbolNumberText(lex.s))
        => (lex.status = "returned" /\ lex.toks = TokensPerRun(lex.s, 1))

\* C4: tokenize ends in one of two ways, a token sequence or a LexError, and
\* never reads the kind of a tail that does not exist.
C4_TailExistsWhenRead ==
    /\ lex.status \in {"scanning", "returned", "LexError"}
    /\ ~lex.ub

HexDigit == Digit \cup LowerAF \cup UpperAF

\* '0x' followed by hex digits only (possibly none).
HexLiteralText(text) ==
    /\ Len(text) >= 2
    /\ text[1] = "0"
    /\ text[2] = "x"
    /\ \A k \in 3..Len(text) : text[k] \in HexDigit

\* C8: '0x' followed by hex digits D lexes to exactly one token whose text is
\* D, the empty text when there is no digit.
C8_HexLiteralIsOneToken ==
    (LexDone /\ HexLiteralText(lex.s))
        => /\ lex.status = "returned"
           /\ ~lex.ub
           /\ Len(lex.toks) = 1
           /\ lex.toks[1].token \in {"tok_hex", "tok_number"}
           /\ lex.toks[1].value = SubSeq(lex.s, 3, Len(lex.s))

\* A '|' with no '|' beside it.
HasLonePipe(text) ==
    \E k \in 1..Len(text) :
        /\ text[k] = "|"
        /\ (k = 1 \/ text[k - 1] # "|")
        /\ (k = Len(text) \/ text[k + 1] # "|")

\* C9: tokenize returns no token sequence for a text that holds a '|' not
\* followed by a second '|' (stated for the runs free of undefined behaviour).
C9_LonePipeIsLexError ==
    (lex.status = "returned" /\ ~lex.ub) => ~HasLonePipe(lex.s)

\* The text holds a quote, so part of it may be inside a string.
HasQuote(text) == \E k \in 1..Len(text) : text[k] = "\""

\* A '0' that starts a run, then the letter given, at k.
PrefixAt(text, k, letter) ==
    /\ k + 1 <= Len(text)
    /\ text[k] = "0"
    /\ text[k + 1] = letter
    /\ (k = 1 \/ text[k - 1] \notin Letter \cup Digit)

\* A '0b' prefix with no binary digit behind it.
EmptyBinLiteral(text) ==
    /\ ~HasQuote(text)
    /\ \E k \in 1..Len(text) :
          /\ PrefixAt(text, k, "b")
          /\ (k + 2 > Len(text) \/ text[k + 2] \notin {"0", "1"})

\* C14: a '0b' prefix that is not followed by a binary digit is rejected by
\* the lexer: tokenize fails with a LexError for every such text ("0b",
\* "a = 0b") and returns no token sequence, whereas a '0x' prefix with no
\* digit behind it is accepted (stated for the runs free of undefined
\* behaviour).
C14_EmptyBinIsLexError ==
    /\ (LexDone /\ ~lex.ub /\ EmptyBinLiteral(lex.s)) => lex.status = "LexError"
    /\ (LexDone /\ lex.s = <<"a", " ", "0", "x">>) => lex.status = "returned"

\* A symbol or a decimal number.
SymbolOrDecimal(run) ==
    /\ run # <<>>
    /\ \A k \in 1..Len(run) : run[k] \in Letter \cup Digit
    /\ run[1] \in Digit => \A k \in 1..Len(run) : run[k] \in Digit

KindOfRun(run) == IF run[1] \in Digit THEN "tok_number" ELSE "tok_symbol"

\* text is A||B with A ending before k.
ConcatAt(text, k) ==
    /\ k + 1 <= Len(text)
    /\ text[k] = "|"
    /\ text[k + 1] = "|"
    /\ SymbolOrDecimal(SubSeq(text, 1, k - 1))
    /\ SymbolOrDecimal(SubSeq(text, k + 2, Len(text)))

\* C15: two adjacent pipes between operands lex to exactly one concat token:
\* for symbols or numbers A and B, tokenize of A||B returns [A, concat, B],
\* with no consumable token left in it and A's and B's text unchanged.
C15_TwoPipesAreOneConcat ==
    \A k \in 1..Len(lex.s) :
        (LexDone /\ ConcatAt(lex.s, k)) =>
            LET A == SubSeq(lex.s, 1, k - 1)
                B == SubSeq(lex.s, k + 2, Len(lex.s))
            IN  /\ lex.status = "returned"
                /\ ~lex.ub
                /\ Len(lex.toks) = 3
                /\ lex.toks[1] = [token |-> KindOfRun(A), value |-> A, null |-> FALSE]
                /\ lex.toks[2].token = "tok_concat"
                /\ lex.toks[3] = [token |-> KindOfRun(B), value |-> B, null |-> FALSE]

\* a||b has been read to its end.
C15_Witness ==
    /\ lex.s = <<"a", "|", "|", "b">>
    /\ lex.status = "returned"
    /\ Len(lex.toks) = 3
    /\ lex.toks[2].token = "tok_concat"

\* C16: in every token sequence tokenize returns, each token of kind symbol,
\* number, string or consumable has non-null text.
C16_RunTokensHaveText ==
    (lex.status = "returned" /\ ~lex.ub) =>
        \A k \in 1..Len(lex.toks) :
            lex.toks[k].token \in RunKinds => ~lex.toks[k].null

\* The characters a restricted run is made of: its prefix letter and the
\* digits of its base.
RestrictedChars(restriction) ==
    IF restriction = "tok_hex" THEN HexDigit \cup {"x"} ELSE {"0", "1", "b"}

AEqualsHexPlusFoo == <<"a", "=", "0", "x", "1", "F", "+", "f", "o", "o">>

\* C19: while a hex or binary restriction is active, a character that is not
\* a digit of that base ends the restricted run: the restriction is cleared
\* and the character is classified by the unrestricted rules, so in
\* "0x1F+foo" the characters of foo are a symbol.
C19_RestrictionEndsWithItsRun ==
    /\ (lex.status = "scanning" /\ lex.restrict_type # "tok_undef") =>
          lex.s[Len(lex.s)] \in RestrictedChars(lex.restrict_type)
    /\ IsPrefix(lex.s, AEqualsHexPlusFoo) => lex.status # "LexError"
    /\ (LexDone /\ lex.s = AEqualsHexPlusFoo) =>
          /\ lex.status = "returned"
          /\ lex.toks[Len(lex.toks)] =
                [token |-> "tok_symbol", value |-> <<"f", "o", "o">>, null |-> FALSE]

\* C20: an 'x' or 'b' becomes a hex or binary prefix marker only when the
\* number run being read is the single character '0'; after a longer run
\* that ends in '0' ("10x1F", "100b1") no marker is produced and the digits
\* already read stay in the token sequence (stated for the runs free of
\* undefined behaviour).
C20_PrefixOnlyAfterBareZero ==
    ~lex.ub =>
    /\ lex.restrict_type = "tok_hex" => \E k \in 1..Len(lex.s) : PrefixAt(lex.s, k, "x")
    /\ lex.restrict_type = "tok_bin" => \E k \in 1..Len(lex.s) : PrefixAt(lex.s, k, "b")
    /\ \A i \in 1..Len(lex.toks) :
          /\ lex.toks[i].token = "tok_hex" => \E k \in 1..Len(lex.s) : PrefixAt(lex.s, k, "x")
          /\ lex.toks[i].token = "tok_bin" => \E k \in 1..Len(lex.s) : PrefixAt(lex.s, k, "b")
    /\ (lex.status = "returned" /\ lex.s = <<"a", "=", "1", "0", "x", "1", "F">>) =>
          \E i \in 1..Len(lex.toks) :
              /\ lex.toks[i].token = "tok_number"
              /\ IsPrefix(<<"1", "0">>, lex.toks[i].value)

(***************************************************************************)
(* Claims about ConditionStack, checked under SpecCond                     *)
(***************************************************************************)

\* C10: beside a vector of booleans driven by the same push_back, pop_back
\* and toggle_top calls, size() is the vector's length, empty() holds exactly
\* when the vector is empty and all_true() exactly when it holds no false.
C10_ActsLikeBoolVector ==
    /\ size = Len(vec)
    /\ empty <=> (vec = <<>>)
    /\ all_true <=> (\A k \in 1..Len(vec) : vec[k])

\* A false value buried under a true top, after a pop and a toggle have had
\* room to act: the first false is neither the top nor the bottom.
C10_Witness ==
    /\ Len(vec) >= 3
    /\ vec[1]
    /\ ~vec[2]
    /\ vec[Len(vec)]
    /\ ~all_true

====
